---- MODULE Spec2Model ----
(***************************************************************************)
(* Model of aggregierter_feed.py: the aggregated club news feed generator. *)
(*                                                                         *)
(* Text is modelled as a sequence of tokens.  Titles, anchor texts and     *)
(* club names are sequences of single characters; URLs are sequences of    *)
(* URL tokens (a scheme+host token followed by path tokens).  An absent    *)
(* or empty (falsy) value is the empty sequence.                           *)
(***************************************************************************)
EXTENDS Integers, Sequences, FiniteSets, TLC

VARIABLES
    clubs,         \* the list returned by load_clubs
    seen,          \* rows of the table "seen" of SeenStore
    clock,         \* the value datetime.utcnow() returns
    run,           \* number of the current invocation of main
    idx,           \* position of aggregate's loop over clubs
    pc,            \* position of the control flow
    rss,           \* aggregate's local rss
    gi,            \* position of the loop over guess_paths
    source_items,  \* aggregate's local source_items
    all_items,     \* aggregate's local all_items
    calls,         \* network-facing operations called for the current club
    seen_at_start, \* the rows of "seen" when the current run started
    outputs,       \* what each finished run wrote (guids) or that it raised
    error,         \* where the exception that ended the run was raised
    input,         \* argument of the operation under test (unit specifications)
    result         \* its result (unit specifications)

vars == <<clubs, seen, clock, run, idx, pc, rss, gi, source_items, all_items,
          calls, seen_at_start, outputs, error, input, result>>

(***************************************************************************)
(* Bounds of the model.                                                    *)
(***************************************************************************)
MaxClubs == 2      \* clubs in clubs.csv
MaxAnchors == 5    \* anchors added to a page (SpecScrape)
MaxSortLen == 3    \* items handed to the final sort (SpecSort)
MaxStoreOps == 4   \* calls of mark_seen (SpecStore)

(***************************************************************************)
(* Configuration.                                                          *)
(***************************************************************************)
MAX_ITEMS_PER_SOURCE == 8

(***************************************************************************)
(* Text helpers.                                                           *)
(***************************************************************************)
Min(a, b) == IF a < b THEN a ELSE b

Range(s) == {s[i] : i \in 1..Len(s)}

\* s[:n]
Take(s, n) == SubSeq(s, 1, Min(n, Len(s)))

\* s.startswith(p)
startswith(s, p) == Len(p) <= Len(s) /\ SubSeq(s, 1, Len(p)) = p

\* p in s
contains(s, p) ==
    \E i \in 1..(Len(s) + 1) :
        i + Len(p) - 1 <= Len(s) /\ SubSeq(s, i, i + Len(p) - 1) = p

\* s.rstrip("/")
RECURSIVE rstrip(_)
rstrip(s) ==
    IF s # <<>> /\ s[Len(s)] = "/" THEN rstrip(SubSeq(s, 1, Len(s) - 1)) ELSE s

\* a or b
Or(a, b) == IF a # <<>> THEN a ELSE b

\* the name of a row without club/name column: Python's None
None == <<"None">>

(***************************************************************************)
(* SeenStore: the table seen(id INTEGER PRIMARY KEY, guid TEXT UNIQUE,     *)
(* first_seen TIMESTAMP) as a set of rows.                                 *)
(***************************************************************************)
\* mutant: the lookup never finds a row
is_seen_never(store, guid) == FALSE

is_seen(store, guid) == \E r \in store : r.guid = guid

\* the rowid SQLite gives the next inserted row
NextId(store) ==
    IF store = {} THEN 1
    ELSE (CHOOSE m \in {r.id : r \in store} : \A r \in store : r.id <= m) + 1

\* mutant: INSERT OR REPLACE in place of the INSERT
mark_seen_replace(store, guid, now) ==
    {r \in store : r.guid # guid}
    \cup {[id |-> NextId(store), guid |-> guid, first_seen |-> now]}

\* mark_seen: the INSERT fails with IntegrityError on a guid the table holds
\* (guid is UNIQUE), and the exception is swallowed
mark_seen(store, guid, now) ==
    IF \E r \in store : r.guid = guid THEN store
    ELSE store \cup {[id |-> NextId(store), guid |-> guid, first_seen |-> now]}

(***************************************************************************)
(* Dates.  A datetime is [t, aware, off]: wall-clock time t, and for an    *)
(* aware datetime its UTC offset.  A date string is [fmt, t, off]: its     *)
(* format ("rfc", "iso" or "bad" for anything no parser accepts), the      *)
(* wall-clock time it shows and the text of its offset.                    *)
(***************************************************************************)
Naive(t) == [t |-> t, aware |-> FALSE, off |-> 0]
Aware(t, off) == [t |-> t, aware |-> TRUE, off |-> off]

\* email.utils.format_datetime: a naive datetime is written with offset -0000
format_datetime(dt) ==
    [fmt |-> "rfc", t |-> dt.t,
     off |-> IF ~dt.aware THEN "-0000" ELSE IF dt.off = 0 THEN "+0000" ELSE "+0100"]

\* s.replace('Z', '+00:00')
ReplaceZ(s) == IF s.off = "Z" THEN [s EXCEPT !.off = "+00:00"] ELSE s

\* datetime.fromisoformat
IsoParses(s) == s.fmt = "iso" /\ s.off \in {"", "+00:00", "+01:00"}
fromisoformat(s) ==
    IF s.off = "" THEN Naive(s.t)
    ELSE Aware(s.t, IF s.off = "+01:00" THEN 1 ELSE 0)

\* email.utils.parsedate_to_datetime: offset -0000 gives a naive datetime
RfcParses(s) == s.fmt = "rfc" /\ s.off \in {"-0000", "+0000", "+0100"}
parsedate_to_datetime(s) ==
    IF s.off = "-0000" THEN Naive(s.t)
    ELSE Aware(s.t, IF s.off = "+0100" THEN 1 ELSE 0)

\* parse_date of aggregate; now is what datetime.utcnow() returns
parse_date(s, now) ==
    IF IsoParses(ReplaceZ(s)) THEN fromisoformat(ReplaceZ(s))
    ELSE IF RfcParses(s) THEN parsedate_to_datetime(s)
    ELSE Naive(now)

\* datetime comparison raises TypeError for a naive and an aware operand
Comparable(a, b) == a.aware = b.aware
Instant(a) == a.t - a.off
\* a < b for comparable datetimes
Before(a, b) == Instant(a) < Instant(b)

(***************************************************************************)
(* URLs.  The first token of an absolute URL names scheme and host; every  *)
(* other token is a path token starting with "/".                          *)
(***************************************************************************)
Hosts == {"http://a.de", "http://b.de"}
\* an href urlsplit rejects ("Invalid IPv6 URL")
BadHref == <<"http://[">>

Raise == [raised |-> TRUE, value |-> <<>>]
Return(v) == [raised |-> FALSE, value |-> v]

\* requests.compat.urljoin(base, href) for absolute URLs and absolute paths
urljoin(base, href) ==
    IF href = <<>> THEN Return(base)
    ELSE IF href = BadHref THEN Raise
    ELSE IF base = <<>> \/ href[1] \in Hosts THEN Return(href)
    ELSE Return(<<base[1]>> \o href)

(***************************************************************************)
(* Feed discovery.  A site is what the network answers for one URL:        *)
(* root = the answer to http_get(url) ([ok, links] with the href of every  *)
(* <link> of an RSS/Atom type), probes = the answers to the requests for   *)
(* the candidate paths ([exc, status, ctype, body]).                       *)
(***************************************************************************)
FeedPaths == << <<"/feed">>, <<"/rss">>, <<"/rss.xml">>, <<"/news", "/rss">>,
                <<"/news", "/feed">>, <<"/aktuelles", "/feed">> >>

\* re.search(r"<rss|<feed", rr.text): no flags, so case-sensitive
BodyMatches(body) == \E i \in 1..Len(body) : body[i] \in {"<rss", "<feed"}

\* mutant: the test without its parentheses
ProbeAcceptsLoose(rr) ==
    /\ ~rr.exc
    /\ (rr.status = 200 /\ contains(rr.ctype, <<"xml">>)) \/ BodyMatches(rr.body)

\* the test of one candidate's response
ProbeAccepts(rr) ==
    /\ ~rr.exc
    /\ rr.status = 200
    /\ (contains(rr.ctype, <<"xml">>) \/ BodyMatches(rr.body))

\* the loop over candidates, from candidate i on
RECURSIVE ProbeLoop(_, _, _)
ProbeLoop(url, probes, i) ==
    IF i > Len(FeedPaths) THEN <<>>
    ELSE IF ProbeAccepts(probes[i]) THEN rstrip(url) \o FeedPaths[i]
    ELSE ProbeLoop(url, probes, i + 1)

\* the loop over link_tags, from tag i on
RECURSIVE LinkLoop(_, _, _)
LinkLoop(url, site, i) ==
    IF i > Len(site.root.links) THEN Return(ProbeLoop(url, site.probes, 1))
    ELSE IF site.root.links[i] # <<>> THEN urljoin(url, site.root.links[i])
    ELSE LinkLoop(url, site, i + 1)

discover_rss_from_url(url, site) ==
    IF ~site.root.ok THEN Return(<<>>) ELSE LinkLoop(url, site, 1)

(***************************************************************************)
(* Feed reader.  A feed is what feedparser.parse gives: [exc, entries];    *)
(* an entry is [title, link, id, summary, published_parsed, published,     *)
(* updated], an absent field being <<>> and a present date <<d>>.          *)
(***************************************************************************)
NoTitle == <<"(kein Titel)">>

\* the pubdate of one entry
EntryPubDate(e, now) ==
    IF e.published_parsed # <<>>
    THEN format_datetime(Naive(e.published_parsed[1]))
    ELSE IF e.published # <<>> THEN e.published[1]
    ELSE IF e.updated # <<>> THEN e.updated[1]
    ELSE format_datetime(Naive(now))

\* the loop over f.entries[:MAX_ITEMS_PER_SOURCE], from entry i on
RECURSIVE EntryLoop(_, _, _)
EntryLoop(entries, i, now) ==
    IF i > Len(entries) THEN <<>>
    ELSE IF Or(entries[i].link, entries[i].id) = <<>>
    THEN EntryLoop(entries, i + 1, now)
    ELSE <<[title |-> Or(entries[i].title, NoTitle),
            link |-> Or(entries[i].link, entries[i].id),
            description |-> entries[i].summary,
            pubDate |-> EntryPubDate(entries[i], now)]>>
         \o EntryLoop(entries, i + 1, now)

fetch_feed_items(feed, now) ==
    IF feed.exc THEN <<>>
    ELSE EntryLoop(Take(feed.entries, MAX_ITEMS_PER_SOURCE), 1, now)

(***************************************************************************)
(* Heuristic scraper.  A page is the answer to http_get(page_url):         *)
(* [ok, anchors], an anchor being [href, text].                            *)
(***************************************************************************)
\* path tokens the pattern matches when another path token follows: /news/ ...
SlashKeywords == {"/news", "/News", "/article", "/artikel"}
\* path tokens the pattern matches by themselves: /aktuell, /presse, /blog ...
PlainKeywords == {"/aktuell", "/aktuelles", "/presse", "/Presse", "/blog",
                  "/berichte", "/nachrichten", "/news-1"}
Years == {"/2024", "/2025"}
Months == {"/05", "/11"}

\* re.search(r"/news/|/article/|...|\d{4}/\d{2}", full, re.I)
ArticlePattern(full) ==
    \E i \in 2..Len(full) :
        \/ full[i] \in PlainKeywords
        \/ full[i] \in SlashKeywords /\ i < Len(full)
        \/ full[i] \in Years /\ i < Len(full) /\ full[i + 1] \in Months

\* len([p for p in urlparse(full).path.split('/') if p])
PathParts(full) == Cardinality({i \in 2..Len(full) : full[i] # "/"})

ArticleLike(full) == ArticlePattern(full) \/ PathParts(full) >= 3

\* the loop over anchors, from anchor i on; candidates (full, text) so far
RECURSIVE AnchorLoop(_, _, _, _)
AnchorLoop(page_url, anchors, i, candidates) ==
    IF i > Len(anchors) THEN Return(candidates)
    ELSE IF Len(anchors[i].text) < 5 \/ anchors[i].href[1] \in {"#", "mailto:"}
    THEN AnchorLoop(page_url, anchors, i + 1, candidates)
    ELSE LET full == urljoin(page_url, anchors[i].href) IN
         IF full.raised THEN Raise
         ELSE IF ArticleLike(full.value)
         THEN AnchorLoop(page_url, anchors, i + 1,
                  Append(candidates, [link |-> full.value, text |-> anchors[i].text]))
         ELSE AnchorLoop(page_url, anchors, i + 1, candidates)

\* mutant: the dedup loop without its break
RECURSIVE UniqueLoopNoCap(_, _, _)
UniqueLoopNoCap(candidates, i, unique) ==
    IF i > Len(candidates) THEN unique
    ELSE IF \E j \in 1..Len(unique) : unique[j].link = candidates[i].link
    THEN UniqueLoopNoCap(candidates, i + 1, unique)
    ELSE UniqueLoopNoCap(candidates, i + 1, Append(unique, candidates[i]))

\* the dedup loop over candidates, from candidate i on; unique so far
RECURSIVE UniqueLoop(_, _, _)
UniqueLoop(candidates, i, unique) ==
    IF i > Len(candidates) THEN unique
    ELSE IF \E j \in 1..Len(unique) : unique[j].link = candidates[i].link
    THEN UniqueLoop(candidates, i + 1, unique)
    ELSE IF Len(unique) + 1 >= MAX_ITEMS_PER_SOURCE
    THEN Append(unique, candidates[i])
    ELSE UniqueLoop(candidates, i + 1, Append(unique, candidates[i]))

ScrapedItem(page_url, c, now) ==
    [title |-> c.text,
     link |-> c.link,
     description |-> <<"Artikel von ">> \o page_url,
     pubDate |-> format_datetime(Naive(now))]

scrape_for_articles(page_url, page, now) ==
    IF ~page.ok THEN Return(<<>>)
    ELSE LET candidates == AnchorLoop(page_url, page.anchors, 1, <<>>) IN
         IF candidates.raised THEN Raise
         ELSE LET unique == UniqueLoop(candidates.value, 1, <<>>) IN
              Return([k \in 1..Len(unique) |-> ScrapedItem(page_url, unique[k], now)])

(***************************************************************************)
(* aggregate: attribution, dedup against the store, and the final sort.    *)
(***************************************************************************)
Sep == <<" ", "-", " ">>

\* the title is left alone: it has the separator or starts with name + ':'
KeepsTitle(title, name) == contains(title, Sep) \/ startswith(title, name \o <<":">>)

\* name + ':' raises TypeError when name is None; it is evaluated only for a
\* title without the separator
AnnotateRaises(items, name) ==
    name = None /\ \E i \in 1..Len(items) : ~contains(items[i].title, Sep)

\* mutant: the title is prefixed whenever it lacks the separator
AnnotateItemNoNameTest(it, name) ==
    [it EXCEPT
        !.title = IF contains(it.title, Sep) THEN it.title
                  ELSE name \o <<":", " ">> \o it.title,
        !.description = <<"Quelle: ">> \o name \o <<". ">> \o it.description]

AnnotateItem(it, name) ==
    [it EXCEPT
        !.title = IF KeepsTitle(it.title, name) THEN it.title
                  ELSE name \o <<":", " ">> \o it.title,
        !.description = <<"Quelle: ">> \o name \o <<". ">> \o it.description]

\* the loop "for it in source_items" that prefixes title and description
Annotate(items, name) == [i \in 1..Len(items) |-> AnnotateItem(items[i], name)]

\* mutant: the loop without its call of mark_seen
RECURSIVE DedupLoopUnmarked(_, _, _, _, _)
DedupLoopUnmarked(items, i, store, new_items, now) ==
    IF i > Len(items) THEN [store |-> store, new_items |-> new_items]
    ELSE IF is_seen(store, items[i].link)
    THEN DedupLoopUnmarked(items, i + 1, store, new_items, now)
    ELSE DedupLoopUnmarked(items, i + 1, store, Append(new_items, items[i]), now)

\* the loop that fills new_items, from item i on
RECURSIVE DedupLoop(_, _, _, _, _)
DedupLoop(items, i, store, new_items, now) ==
    IF i > Len(items) THEN [store |-> store, new_items |-> new_items]
    ELSE IF is_seen(store, items[i].link)
    THEN DedupLoop(items, i + 1, store, new_items, now)
    ELSE DedupLoop(items, i + 1, mark_seen(store, items[i].link, now),
                   Append(new_items, items[i]), now)

\* the sort keys, in list order; every fallback is one more call of utcnow()
RECURSIVE SortKeys(_, _, _)
SortKeys(items, i, now) ==
    IF i > Len(items) THEN <<>>
    ELSE IF IsoParses(ReplaceZ(items[i].pubDate)) \/ RfcParses(items[i].pubDate)
    THEN <<parse_date(items[i].pubDate, now)>> \o SortKeys(items, i + 1, now)
    ELSE <<parse_date(items[i].pubDate, now)>> \o SortKeys(items, i + 1, now + 1)

\* where a pair [key, item] goes in a list sorted by key descending; an equal
\* key stays behind the ones before it (the sort is stable)
RECURSIVE InsertDesc(_, _, _)
InsertDesc(sorted, p, i) ==
    IF i > Len(sorted) \/ Before(sorted[i].key, p.key)
    THEN SubSeq(sorted, 1, i - 1) \o <<p>> \o SubSeq(sorted, i, Len(sorted))
    ELSE InsertDesc(sorted, p, i + 1)

RECURSIVE SortDesc(_, _, _)
SortDesc(pairs, i, sorted) ==
    IF i > Len(pairs) THEN sorted
    ELSE SortDesc(pairs, i + 1, InsertDesc(sorted, pairs[i], 1))

\* a comparison of the sort raises TypeError: some naive and some aware key
SortRaises(keys) ==
    \E i, j \in 1..Len(keys) : ~Comparable(keys[i], keys[j])

\* the list sorted by key descending, as pairs [key, item]
SortedPairs(items, keys) ==
    SortDesc([i \in 1..Len(items) |-> [key |-> keys[i], item |-> items[i]]], 1, <<>>)

\* all_items.sort(key=lambda x: parse_date(x.get('pubDate', '')), reverse=True)
sort_items(items, now) ==
    LET keys == SortKeys(items, 1, now) IN
    IF SortRaises(keys) THEN Raise
    ELSE LET sorted == SortedPairs(items, keys)
         IN Return([i \in 1..Len(sorted) |-> sorted[i].item])

\* the guid elements build_rss writes into the feed document
build_rss(items) == [i \in 1..Len(items) |-> items[i].link]

(***************************************************************************)
(* What the environment can hold and answer.                               *)
(***************************************************************************)
U1 == <<"http://a.de">>
U2 == <<"http://a.de", "/">>
L1 == <<"http://a.de", "/news", "/1">>
L2 == <<"http://a.de", "/news", "/2">>

Plain == <<"n", "e", "w", "s", "1">>
WithSep == <<"x", " ", "-", " ", "y">>
WithName == <<"A", ":", "x", "y", "z">>
Short == <<"h", "i">>

\* the rows of clubs.csv as load_clubs returns them
ClubRows == {[name |-> <<"A">>, url |-> <<>>],
             [name |-> <<"A">>, url |-> U2],
             [name |-> None, url |-> U2]}
ClubLists == UNION {[1..n -> ClubRows] : n \in 1..MaxClubs}

\* answers to the request for the root page
RootAnswers ==
    {[ok |-> FALSE, links |-> <<>>],
     [ok |-> TRUE, links |-> <<>>],
     [ok |-> TRUE, links |-> << <<>>, <<"/feed.xml">> >>],
     [ok |-> TRUE, links |-> <<BadHref>>]}

\* answers to the request for a candidate feed path
ProbeAnswers ==
    {[exc |-> TRUE, status |-> 0, ctype |-> <<>>, body |-> <<>>],
     [exc |-> FALSE, status |-> 404, ctype |-> <<"text/", "xml">>, body |-> <<"<rss">>],
     [exc |-> FALSE, status |-> 200, ctype |-> <<"text/", "xml">>, body |-> <<>>],
     [exc |-> FALSE, status |-> 200, ctype |-> <<"text/", "html">>, body |-> <<"<html", "<rss">>],
     [exc |-> FALSE, status |-> 200, ctype |-> <<"text/", "html">>, body |-> <<"<RSS">>],
     [exc |-> FALSE, status |-> 200, ctype |-> <<"text/", "html">>, body |-> <<"<html">>]}

Sites == [root : RootAnswers, probes : [1..Len(FeedPaths) -> ProbeAnswers]]

\* the sites of Spec: every probe either fails or is accepted
MainSites ==
    [root : RootAnswers,
     probes : [1..Len(FeedPaths) ->
                  {r \in ProbeAnswers : r.exc \/ (r.status = 200 /\ r.body = <<>>)}]]

Entry(title, link, id, pp, published, updated) ==
    [title |-> title, link |-> link, id |-> id, summary |-> <<"s">>,
     published_parsed |-> pp, published |-> published, updated |-> updated]

IsoZ(t) == [fmt |-> "iso", t |-> t, off |-> "Z"]

E1 == Entry(Plain, L1, <<>>, <<3>>, <<>>, <<>>)
E2 == Entry(<<>>, <<>>, L2, <<>>, <<>>, <<IsoZ(4)>>)
E3 == Entry(WithName, L1, <<>>, <<>>, <<>>, <<>>)
E4 == Entry(WithSep, <<>>, <<>>, <<2>>, <<>>, <<>>)

\* what feedparser.parse gives in Spec
MainFeeds ==
    {[exc |-> TRUE, entries |-> <<>>],
     [exc |-> FALSE, entries |-> <<E1, E3>>],
     [exc |-> FALSE, entries |-> <<E4, E2>>]}

Anchor(href, text) == [href |-> href, text |-> text]

\* the pages of Spec
MainPages ==
    {[ok |-> FALSE, anchors |-> <<>>],
     [ok |-> TRUE, anchors |-> <<Anchor(<<"/news", "/1">>, Plain), Anchor(L1, WithSep)>>],
     [ok |-> TRUE, anchors |-> <<Anchor(<<"/a">>, Plain), Anchor(<<"/news", "/2">>, WithSep)>>],
     [ok |-> TRUE, anchors |-> <<Anchor(<<"/news", "/2">>, WithName), Anchor(BadHref, Plain)>>]}

\* answers to the request for a guessed news path: [exc, status, len(r.text)]
GuessAnswers ==
    {[exc |-> TRUE, status |-> 0, len |-> 0],
     [exc |-> FALSE, status |-> 404, len |-> 500],
     [exc |-> FALSE, status |-> 200, len |-> 200],
     [exc |-> FALSE, status |-> 200, len |-> 201]}

(***************************************************************************)
(* Spec: runs of main, one after the other, on the same seen.db.           *)
(***************************************************************************)
GuessPaths == << <<"/news">>, <<"/aktuelles">>, <<"/presse">>, <<"/news", "/feed">>,
                 <<"/de", "/aktuelles">> >>
MIN_BODY_LEN == 200

\* the invocations of main: two consecutive runs sharing one seen.db, the
\* second starting from whatever store the first one left
Runs == {1, 2}

GuessAccepts(r) == ~r.exc /\ r.status = 200 /\ r.len > MIN_BODY_LEN

Club == clubs[idx]
Guess == rstrip(Club.url) \o GuessPaths[gi]
Call(op, target, ok) == [op |-> op, target |-> target, ok |-> ok]

Init ==
    /\ clubs \in ClubLists
    /\ seen = {}
    /\ clock = 5
    /\ run = 1
    /\ idx = 1
    /\ pc = "start"
    /\ rss = <<>>
    /\ gi = 1
    /\ source_items = <<>>
    /\ all_items = <<>>
    /\ calls = <<>>
    /\ seen_at_start = {}
    /\ outputs = <<>>
    /\ error = ""
    /\ input = <<>>
    /\ result = <<>>

\* mutant: the head of the loop body without the test of url
StartClubAnyUrl ==
    /\ pc = "start"
    /\ idx <= Len(clubs)
    /\ calls' = <<>>
    /\ source_items' = <<>>
    /\ rss' = <<>>
    /\ gi' = 1
    /\ pc' = "discover"
    /\ UNCHANGED <<clubs, seen, clock, run, idx, all_items, seen_at_start, outputs, error,
                   input, result>>

\* the head of the loop body: "if url:" and its else branch
StartClub ==
    /\ pc = "start"
    /\ idx <= Len(clubs)
    /\ calls' = <<>>
    /\ source_items' = <<>>
    /\ rss' = <<>>
    /\ gi' = 1
    /\ pc' = IF Club.url # <<>> THEN "discover" ELSE "annotate"
    /\ UNCHANGED <<clubs, seen, clock, run, idx, all_items, seen_at_start, outputs, error,
                   input, result>>

\* rss = discover_rss_from_url(url)
Discover ==
    /\ pc = "discover"
    /\ \E site \in MainSites :
         LET r == discover_rss_from_url(Club.url, site) IN
         /\ calls' = Append(calls, Call("discover", Club.url, ~r.raised))
         /\ rss' = r.value
         /\ pc' = IF r.raised THEN "raised" ELSE IF r.value # <<>> THEN "feed" ELSE "guess"
         /\ error' = IF r.raised THEN "discover" ELSE error
    /\ UNCHANGED <<clubs, seen, clock, run, idx, gi, source_items, all_items,
                   seen_at_start, outputs, input, result>>

\* source_items = fetch_feed_items(rss)
FetchFeed ==
    /\ pc = "feed"
    /\ \E feed \in MainFeeds :
         /\ source_items' = fetch_feed_items(feed, clock)
         /\ calls' = Append(calls, Call("feed", rss, ~feed.exc))
    /\ pc' = "annotate"
    /\ UNCHANGED <<clubs, seen, clock, run, idx, rss, gi, all_items, seen_at_start,
                   outputs, error, input, result>>

\* r = requests.get(guess, ...) and the test of r
GuessProbe ==
    /\ pc = "guess"
    /\ gi <= Len(GuessPaths)
    /\ \E r \in GuessAnswers :
         /\ calls' = Append(calls, Call("probe", Guess, GuessAccepts(r)))
         /\ pc' = IF GuessAccepts(r) THEN "scrape_guess" ELSE "guess"
         /\ gi' = IF GuessAccepts(r) THEN gi ELSE gi + 1
    /\ UNCHANGED <<clubs, seen, clock, run, idx, rss, source_items, all_items,
                   seen_at_start, outputs, error, input, result>>

\* source_items = scrape_for_articles(guess) inside the try of the loop: an
\* exception of the scraper is caught like one of the request, the loop goes on
ScrapeGuess ==
    /\ pc = "scrape_guess"
    /\ \E page \in MainPages :
         LET r == scrape_for_articles(Guess, page, clock) IN
         /\ calls' = Append(calls, Call("scrape", Guess, ~r.raised))
         /\ source_items' = r.value
         /\ pc' = IF r.raised THEN "guess" ELSE "annotate"
         /\ gi' = IF r.raised THEN gi + 1 ELSE gi
    /\ UNCHANGED <<clubs, seen, clock, run, idx, rss, all_items, seen_at_start,
                   outputs, error, input, result>>

\* "if not found": source_items = scrape_for_articles(url)
ScrapeRoot ==
    /\ pc = "guess"
    /\ gi > Len(GuessPaths)
    /\ \E page \in MainPages :
         LET r == scrape_for_articles(Club.url, page, clock) IN
         /\ calls' = Append(calls, Call("scrape", Club.url, ~r.raised))
         /\ source_items' = r.value
         /\ pc' = IF r.raised THEN "raised" ELSE "annotate"
         /\ error' = IF r.raised THEN "scrape" ELSE error
    /\ UNCHANGED <<clubs, seen, clock, run, idx, rss, gi, all_items, seen_at_start,
                   outputs, input, result>>

\* the loop that prefixes title and description of the source's items
AnnotateItems ==
    /\ pc = "annotate"
    /\ IF AnnotateRaises(source_items, Club.name)
       THEN /\ pc' = "raised"
            /\ error' = "annotate"
            /\ UNCHANGED source_items
       ELSE /\ pc' = "dedup"
            /\ source_items' = Annotate(source_items, Club.name)
            /\ UNCHANGED error
    /\ UNCHANGED <<clubs, seen, clock, run, idx, rss, gi, all_items, calls,
                   seen_at_start, outputs, input, result>>

\* the loop that fills new_items, and all_items.extend(new_items)
Dedup ==
    /\ pc = "dedup"
    /\ LET d == DedupLoop(source_items, 1, seen, <<>>, clock) IN
         /\ seen' = d.store
         /\ all_items' = all_items \o d.new_items
    /\ idx' = idx + 1
    /\ pc' = "start"
    /\ UNCHANGED <<clubs, clock, run, rss, gi, source_items, calls, seen_at_start,
                   outputs, error, input, result>>

\* all_items.sort(...); return all_items
SortItems ==
    /\ pc = "start"
    /\ idx > Len(clubs)
    /\ LET r == sort_items(all_items, clock) IN
         /\ all_items' = IF r.raised THEN all_items ELSE r.value
         /\ pc' = IF r.raised THEN "raised" ELSE "returned"
         /\ error' = IF r.raised THEN "sort" ELSE error
    /\ UNCHANGED <<clubs, seen, clock, run, idx, rss, gi, source_items, calls, seen_at_start,
                   outputs, input, result>>

\* main: xml = build_rss(items) and the write of OUTPUT_RSS
WriteFeed ==
    /\ pc = "returned"
    /\ outputs' = Append(outputs, [ok |-> TRUE, guids |-> build_rss(all_items)])
    /\ pc' = "done"
    /\ UNCHANGED <<clubs, seen, clock, run, idx, rss, gi, source_items, all_items,
                   calls, seen_at_start, error, input, result>>

\* the next scheduled invocation of main, after one that ended or raised
NextRun ==
    /\ pc \in {"done", "raised"}
    /\ run + 1 \in Runs
    /\ run' = run + 1
    /\ outputs' = IF pc = "raised" THEN Append(outputs, [ok |-> FALSE, guids |-> <<>>])
                  ELSE outputs
    /\ seen_at_start' = seen
    /\ idx' = 1
    /\ all_items' = <<>>
    /\ source_items' = <<>>
    /\ calls' = <<>>
    /\ rss' = <<>>
    /\ gi' = 1
    /\ error' = ""
    /\ clock' = clock + 1
    /\ pc' = "start"
    /\ UNCHANGED <<clubs, seen, input, result>>

Next ==
    \/ StartClub
    \/ Discover
    \/ FetchFeed
    \/ GuessProbe
    \/ ScrapeGuess
    \/ ScrapeRoot
    \/ AnnotateItems
    \/ Dedup
    \/ SortItems
    \/ WriteFeed
    \/ NextRun

Spec == Init /\ [][Next]_vars

(***************************************************************************)
(* Unit specifications: one operation applied to inputs of a bounded set.  *)
(* The variables of Spec stay as they are before the first run.            *)
(***************************************************************************)
Idle ==
    /\ clubs = <<>>
    /\ run = 1
    /\ idx = 1
    /\ pc = "unit"
    /\ rss = <<>>
    /\ gi = 1
    /\ source_items = <<>>
    /\ all_items = <<>>
    /\ calls = <<>>
    /\ seen_at_start = {}
    /\ outputs = <<>>
    /\ error = ""

IdleVars == <<clubs, run, idx, pc, rss, gi, source_items, all_items, calls,
              seen_at_start, outputs, error>>

(***************************************************************************)
(* SpecStore: calls of is_seen and mark_seen on one store.  input is the   *)
(* list of the guids mark_seen was called with, result the last answer of  *)
(* is_seen.                                                                *)
(***************************************************************************)
L3 == <<"http://a.de", "/news", "/3">>
Guids == {L1, L2, L3}

InitStore ==
    /\ Idle
    /\ seen = {}
    /\ clock = 5
    /\ input = <<>>
    /\ result = <<>>

MarkSeen ==
    /\ Len(input) < MaxStoreOps
    /\ \E g \in Guids :
         /\ seen' = mark_seen(seen, g, clock)
         /\ input' = Append(input, g)
    /\ clock' = clock + 1
    /\ UNCHANGED result
    /\ UNCHANGED IdleVars

IsSeen ==
    /\ \E g \in Guids : result' = <<g, is_seen(seen, g)>>
    /\ UNCHANGED <<seen, clock, input>>
    /\ UNCHANGED IdleVars

NextStore == MarkSeen \/ IsSeen

SpecStore == InitStore /\ [][NextStore]_vars

(***************************************************************************)
(* SpecScrape: scrape_for_articles on pages built anchor by anchor.        *)
(* input is [page_url, ok, anchors, added], result is <<>> before the     *)
(* call and <<r>> after it.                                                *)
(***************************************************************************)
Num == <<"/1", "/2", "/3", "/4", "/5", "/6", "/7", "/8", "/9", "/10", "/11", "/12",
         "/13", "/14", "/15", "/16">>

\* the k-th article of a page: by keyword for odd k, by depth for even k
Fresh(k) ==
    IF k % 2 = 1 THEN Anchor(<<"/news", Num[k]>>, Plain)
    ELSE Anchor(<<"/a", "/b", Num[k]>>, Plain)

FreshCount(anchors) == Cardinality({k \in 1..Len(Num) : Fresh(k) \in Range(anchors)})

\* anchors the scraper passes over, and one urljoin rejects
Junk == <<Anchor(<<"/a">>, Plain), Anchor(<<"/news", "/1">>, Short),
          Anchor(<<"#", "top">>, Plain), Anchor(<<"mailto:", "x">>, Plain),
          Anchor(BadHref, Plain)>>

\* the anchors a page can go on with: a new article, the first article again
\* as an absolute URL under another text, the latest article again, or junk
NextAnchors(anchors) ==
    {Fresh(FreshCount(anchors) + 1), Junk[(Len(anchors) % Len(Junk)) + 1]}
    \cup (IF FreshCount(anchors) = 0 THEN {}
          ELSE {Anchor(<<"http://a.de">> \o Fresh(1).href, WithSep),
                Anchor(Fresh(FreshCount(anchors)).href, WithName)})

Prefilled == [k \in 1..6 |-> Fresh(k)]

InitScrape ==
    /\ Idle
    /\ seen = {}
    /\ clock = 5
    /\ input \in [page_url : {U2, <<"http://a.de", "/news">>}, ok : BOOLEAN,
                  anchors : {<<>>, Prefilled}, added : {0}]
    /\ result = <<>>

AddAnchor ==
    /\ result = <<>>
    /\ input.added < MaxAnchors
    /\ FreshCount(input.anchors) < Len(Num)
    /\ \E a \in NextAnchors(input.anchors) :
         input' = [input EXCEPT !.anchors = Append(@, a), !.added = @ + 1]
    /\ UNCHANGED <<seen, clock, result>>
    /\ UNCHANGED IdleVars

Scrape ==
    /\ result = <<>>
    /\ result' = <<scrape_for_articles(input.page_url,
                        [ok |-> input.ok, anchors |-> input.anchors], clock)>>
    /\ UNCHANGED <<seen, clock, input>>
    /\ UNCHANGED IdleVars

NextScrape == AddAnchor \/ Scrape

SpecScrape == InitScrape /\ [][NextScrape]_vars

(***************************************************************************)
(* SpecDiscover: discover_rss_from_url on every site of Sites.  input is   *)
(* [url, site], result is <<>> before the call and <<r>> after it.         *)
(***************************************************************************)
InitDiscover ==
    /\ Idle
    /\ seen = {}
    /\ clock = 5
    /\ input \in [url : {U1, U2}, site : Sites]
    /\ result = <<>>

DiscoverRss ==
    /\ pc = "unit"
    /\ result = <<>>
    /\ input # <<>>
    /\ result' = <<discover_rss_from_url(input.url, input.site)>>
    /\ UNCHANGED <<seen, clock, input>>
    /\ UNCHANGED IdleVars

NextDiscover == DiscoverRss

SpecDiscover == InitDiscover /\ [][NextDiscover]_vars

(***************************************************************************)
(* SpecSort: the final sort of aggregate on lists of items with dates of   *)
(* every form.  input is [items, now], result is <<>> before the sort and  *)
(* <<[raised, value, keys]>> after it, keys being the parsed dates of      *)
(* value in order.                                                         *)
(***************************************************************************)
DateStrings ==
    {[fmt |-> "rfc", t |-> 1, off |-> "-0000"],
     [fmt |-> "rfc", t |-> 3, off |-> "-0000"],
     [fmt |-> "rfc", t |-> 3, off |-> "+0100"],
     [fmt |-> "rfc", t |-> 3, off |-> "+0000"],
     [fmt |-> "iso", t |-> 2, off |-> ""],
     [fmt |-> "iso", t |-> 2, off |-> "Z"],
     [fmt |-> "bad", t |-> 0, off |-> ""]}

SortInputs ==
    UNION {[1..n -> [title : {Plain}, link : {L1, L2}, description : {<<"s">>},
                     pubDate : DateStrings]] : n \in 0..MaxSortLen}

InitSort ==
    /\ Idle
    /\ seen = {}
    /\ clock = 5
    /\ input \in [items : SortInputs, now : {2, 5}]
    /\ result = <<>>

SortList ==
    /\ pc = "unit"
    /\ result = <<>>
    /\ LET keys == SortKeys(input.items, 1, input.now)
           r == sort_items(input.items, input.now) IN
         result' = <<[raised |-> r.raised, value |-> r.value,
                      keys |-> IF r.raised THEN <<>>
                               ELSE [i \in 1..Len(input.items) |->
                                        SortedPairs(input.items, keys)[i].key]]>>
    /\ UNCHANGED <<seen, clock, input>>
    /\ UNCHANGED IdleVars

NextSort == SortList

SpecSort == InitSort /\ [][NextSort]_vars

(***************************************************************************)
(* Properties.                                                             *)
(***************************************************************************)
Links(items) == {items[i].link : i \in 1..Len(items)}
StoredGuids(store) == {r.guid : r \in store}
OutputGuids(r) == Range(outputs[r].guids)
Returned == pc \in {"returned", "done"}

\* C1: monotone dedup.  No link is in the output of two runs that share the
\* store, and a run that returns has output no link the store held when the
\* run started.
C1_MonotoneDedup ==
    /\ \A i, j \in 1..Len(outputs) :
         i < j => OutputGuids(i) \cap OutputGuids(j) = {}
    /\ Returned => Links(all_items) \cap StoredGuids(seen_at_start) = {}

\* the second run ended; its last source returned an item the first run had
\* output, and the second run output another one
C1_Witness ==
    /\ pc = "done"
    /\ Len(outputs) = 2
    /\ outputs[1].guids # <<>>
    /\ outputs[2].guids # <<>>
    /\ Links(source_items) \cap OutputGuids(1) # {}

\* C2: failure isolation.  A failure while discovering or scraping one
\* source never ends the run.
C2_FailureIsolation == ~(pc = "raised" /\ error \in {"discover", "scrape"})

\* C3: while aggregate is at a source without URL nothing is added to
\* all_items or to the store, no network-facing operation is called and the
\* source has no items.
C3_NoUrlNoEffect ==
    [][(idx <= Len(clubs) /\ Club.url = <<>>) =>
          /\ seen' = seen
          /\ all_items' = all_items
          /\ calls' = <<>>
          /\ source_items' = <<>>]_vars

\* a source without URL went through the loop body of a run that has items
\* of an earlier source
C3_Witness ==
    /\ pc = "dedup"
    /\ idx <= Len(clubs)
    /\ Club.url = <<>>
    /\ all_items # <<>>
    /\ seen # {}

\* C4: the final sort never raises and leaves the items in non-increasing
\* order of parsed publication date.
C4_SortNeverRaisesAndOrders ==
    result # <<>> =>
        /\ ~result[1].raised
        /\ \A i \in 1..(Len(result[1].keys) - 1) :
             ~Before(result[1].keys[i], result[1].keys[i + 1])

\* C5: title prefix.  The attribution step leaves a title that had " - " or
\* started with "<name>:" as it was and makes every other title start with
\* "<name>: "; it puts "Quelle: <name>. " once in front of the description;
\* dedup and sort hand the items on as they are.
C5_TitlePrefix ==
    [][/\ (pc = "annotate" /\ pc' = "dedup") =>
            /\ Len(source_items') = Len(source_items)
            /\ \A i \in 1..Len(source_items) :
                 LET old == source_items[i]
                     new == source_items'[i]
                     kept == \/ contains(old.title, <<" ", "-", " ">>)
                             \/ startswith(old.title, Club.name \o <<":">>)
                 IN /\ kept => new.title = old.title
                    /\ ~kept => new.title = Club.name \o <<":", " ">> \o old.title
                    /\ new.description =
                         <<"Quelle: ">> \o Club.name \o <<". ">> \o old.description
                    /\ new.link = old.link
                    /\ new.pubDate = old.pubDate
       /\ (pc = "dedup" /\ pc' = "start") =>
            Range(all_items') \subseteq Range(all_items) \cup Range(source_items)
       /\ (pc = "start" /\ pc' = "returned") =>
            Range(all_items') = Range(all_items)]_vars

\* the attribution step prefixed one title and left alone one that started
\* with the name and a colon
C5_Witness ==
    /\ pc = "dedup"
    /\ Club.name = <<"A">>
    /\ \E i, j \in 1..Len(source_items) :
         /\ source_items[i].title = <<"A", ":", " ">> \o Plain
         /\ source_items[j].title = WithName
         /\ source_items[j].description = <<"Quelle: ", "A", ". ", "s">>

\* C6: mark_seen is idempotent.  No call changes or removes a row, no guid
\* ever has two rows, the guid of the call has one row afterwards, and a
\* call with a guid the store holds changes nothing.
C6_MarkSeenIdempotent ==
    [][/\ seen \subseteq seen'
       /\ \A g \in Guids : Cardinality({r \in seen' : r.guid = g}) <= 1
       /\ \A g \in Guids :
            input' = Append(input, g) =>
               /\ Cardinality({r \in seen' : r.guid = g}) = 1
               /\ g \in StoredGuids(seen) => seen' = seen]_vars

\* mark_seen was called twice with one guid and later with another: the
\* first has a single row, with the time of the first call
C6_Witness ==
    /\ Len(input) = 3
    /\ input[1] = input[2]
    /\ input[3] # input[1]
    /\ Cardinality(seen) = 2
    /\ \E r \in seen : r.guid = input[1] /\ r.first_seen = 5

\* the candidates of the page of SpecScrape and the places of first occurrence
Candidates == AnchorLoop(input.page_url, input.anchors, 1, <<>>).value
FirstPlaces(c) == {i \in 1..Len(c) : \A j \in 1..(i - 1) : c[j].link # c[i].link}

\* C7: the scraper returns the first MAX_ITEMS_PER_SOURCE distinct resolved
\* URLs of its candidates, in page order, each with the text of its first
\* anchor.
C7_ScrapeDedupCap ==
    (result # <<>> /\ input.ok /\ ~result[1].raised) =>
        LET first == FirstPlaces(Candidates)
            items == result[1].value
        IN /\ Len(items) = Min(MAX_ITEMS_PER_SOURCE, Cardinality(first))
           /\ \A k \in 1..Len(items) :
                \E i \in first :
                    /\ Cardinality({j \in first : j < i}) = k - 1
                    /\ items[k].link = Candidates[i].link
                    /\ items[k].title = Candidates[i].text

\* a page with more than MAX_ITEMS_PER_SOURCE distinct articles, one of the
\* first of them twice, was scraped
C7_Witness ==
    /\ result # <<>>
    /\ input.ok
    /\ ~result[1].raised
    /\ Cardinality(FirstPlaces(Candidates)) > MAX_ITEMS_PER_SOURCE
    /\ Len(result[1].value) = MAX_ITEMS_PER_SOURCE
    /\ \E i \in 1..MAX_ITEMS_PER_SOURCE : i \notin FirstPlaces(Candidates)

CallsOf(op) == {i \in 1..Len(calls) : calls[i].op = op}
MinOf(S) == CHOOSE m \in S : \A x \in S : m <= x

\* C8: source resolution order.  When the items of a source with URL are
\* there, either discovery found a feed and only the reader ran, or the
\* scraper ran once: on the first guessed path that answered 200 with a long
\* enough body, or on the URL itself after all guessed paths failed.
C8_ResolutionOrder ==
    (pc = "annotate" /\ Club.url # <<>>) =>
        IF rss # <<>>
        THEN /\ Cardinality(CallsOf("feed")) = 1
             /\ CallsOf("probe") = {}
             /\ CallsOf("scrape") = {}
        ELSE /\ CallsOf("feed") = {}
             /\ Cardinality(CallsOf("scrape")) = 1
             /\ LET accepted == {i \in CallsOf("probe") : calls[i].ok}
                    scraped == calls[MinOf(CallsOf("scrape"))].target
                IN IF accepted # {}
                   THEN scraped = calls[MinOf(accepted)].target
                   ELSE /\ scraped = Club.url
                        /\ Cardinality(CallsOf("probe")) = Len(GuessPaths)

\* lower case of a body token
Lower(tok) == IF tok = "<RSS" THEN "<rss" ELSE tok

\* the first candidate with status 200 and "xml" in the content type or an
\* <rss or <feed tag in the body, the tag compared with or without case
Accepted(rr, anycase) ==
    /\ ~rr.exc
    /\ rr.status = 200
    /\ \/ \E i \in 1..Len(rr.ctype) : rr.ctype[i] = "xml"
       \/ \E i \in 1..Len(rr.body) :
            (IF anycase THEN Lower(rr.body[i]) ELSE rr.body[i]) \in {"<rss", "<feed"}
FirstAccepted(anycase) ==
    LET ok == {i \in 1..Len(FeedPaths) : Accepted(input.site.probes[i], anycase)}
    IN IF ok = {} THEN <<>> ELSE rstrip(input.url) \o FeedPaths[MinOf(ok)]
NoLinkPage == input.site.root.ok /\ input.site.root.links = <<>>

\* C9 as stated: on a page without feed link, discovery returns the first
\* candidate with status 200 and an xml content type or a body with an <rss
\* or <feed tag in any case, and no feed if there is none.
C9_ProbeAnyCase ==
    (result # <<>> /\ NoLinkPage) =>
        ~result[1].raised /\ result[1].value = FirstAccepted(TRUE)

\* C9 amended: the same with the tag compared case-sensitively.
C9_ProbeLowerCase ==
    (result # <<>> /\ NoLinkPage) =>
        ~result[1].raised /\ result[1].value = FirstAccepted(FALSE)

\* discovery passed over a failed probe, a 404 and a body with <RSS and
\* returned the fourth candidate, accepted for its <rss tag
C9_Witness ==
    /\ result # <<>>
    /\ NoLinkPage
    /\ input.site.probes[1].exc
    /\ input.site.probes[2].status = 404
    /\ input.site.probes[3].body = <<"<RSS">>
    /\ input.site.probes[4].body = <<"<html", "<rss">>
    /\ result[1].value = rstrip(input.url) \o FeedPaths[4]

\* C10: no row leaves the store; when aggregate has returned, the links of
\* its output are pairwise distinct and are the guids the run added to the
\* store.
C10_OutputIsNewlySeen ==
    /\ seen_at_start \subseteq seen
    /\ Returned =>
         /\ \A i, j \in 1..Len(all_items) :
              i # j => all_items[i].link # all_items[j].link
         /\ Links(all_items) = StoredGuids(seen) \ StoredGuids(seen_at_start)

\* a second run over two sources returned; its last source gave one new
\* link twice, and the output has that link once and nothing else
C10_Witness ==
    /\ pc = "done"
    /\ run = 2
    /\ Len(clubs) = 2
    /\ \E i, j \in 1..Len(source_items) :
         /\ i # j
         /\ source_items[i].link = source_items[j].link
         /\ source_items[i].link \in Links(all_items)
         /\ source_items[i].link \notin StoredGuids(seen_at_start)
    /\ Len(all_items) = 1
    /\ clubs[1].url # <<>>
    /\ seen_at_start # {}

====
